---- MODULE Spec2Model ----
(***************************************************************************)
(* A model of the island utility library: the nominal-typing guards        *)
(* (StrictType, BrandStructure), the exception hierarchy and the Optional  *)
(* container.                                                              *)
(*                                                                         *)
(* JavaScript values are records [kind, num, str]; an Optional object is a *)
(* cell of `heap` and a reference to it is a value of kind "optional".     *)
(* Every library call is one action that stores what the call did in a     *)
(* "last call" record: the operation, its arguments, whether it returned   *)
(* or threw, the returned value or the thrown exception, and the sequence  *)
(* of caller-supplied functions it invoked.                                *)
(***************************************************************************)
EXTENDS Integers, Sequences, FiniteSets

VARIABLES
    strictValidator,  \* StrictType.#validator
    brandValidator,   \* BrandStructure.#validator
    guardCall,        \* the last call made on a guard and its outcome
    heap,             \* the Optional objects constructed so far: heap[i] is #value of object i
    optCall,          \* the last call made on Optional and its outcome
    count,            \* Duration.#count of the Duration last constructed
    rendered,         \* the last toString() of that Duration: its parts and text
    timer,            \* the Timer's fields
    host,             \* the host's timers: those armed, and the next id it gives
    timerLog          \* the last Timer step, and counts of starts and invocations

guardVars == <<strictValidator, brandValidator, guardCall>>
optVars == <<heap, optCall>>
durationVars == <<count, rendered>>
timerVars == <<timer, host, timerLog>>
vars == <<strictValidator, brandValidator, guardCall, heap, optCall,
          count, rendered, timer, host, timerLog>>

(***************************************************************************)
(* Bounds of the model.                                                    *)
(***************************************************************************)
\* Numbers given as inputs range over -MaxNum..MaxNum.
MaxNum == 1
\* At most MaxHeap Optional objects are constructed in one behaviour.
MaxHeap == 2
\* The fields of a Duration input range over -MaxField..MaxField.
MaxField == 1
\* A Timer is started at most MaxStarts times in one behaviour.
MaxStarts == 3
\* The Timer's callback is invoked at most MaxInvocations times in one behaviour.
MaxInvocations == 3

(***************************************************************************)
(* JavaScript values.                                                      *)
(***************************************************************************)
Undefined == [kind |-> "undefined", num |-> 0, str |-> ""]
Null == [kind |-> "null", num |-> 0, str |-> ""]
Num(n) == [kind |-> "number", num |-> n, str |-> ""]
Str(s) == [kind |-> "string", num |-> 0, str |-> s]
Bool(b) == [kind |-> "boolean", num |-> IF b THEN 1 ELSE 0, str |-> ""]
Fn(name) == [kind |-> "function", num |-> 0, str |-> name]
Ref(i) == [kind |-> "optional", num |-> i, str |-> ""]
\* The number NaN.
NaN == [kind |-> "number", num |-> 0, str |-> "NaN"]
\* A reference to a plain object, written {}: object i of the heap, or, for
\* i = 0, an object the caller made before any call of the model.
ObjRef(i) == [kind |-> "object", num |-> i, str |-> ""]
\* The heap cell of a plain object, which is no Optional.
PlainObject == [kind |-> "plain", num |-> 0, str |-> ""]
\* Symbol("s").
Symbol == [kind |-> "symbol", num |-> 0, str |-> "s"]
\* Object.create(null): an object with no toString and no valueOf.
BareObject == [kind |-> "bare", num |-> 0, str |-> ""]

True == Bool(TRUE)
False == Bool(FALSE)

Numbers == {Num(n) : n \in -MaxNum..MaxNum}
Strings == {Str(""), Str("a")}
Absent == {Null, Undefined}
\* The primitive values callers pass in.
Primitives == Numbers \cup Strings \cup {True, False}
Values == Primitives \cup Absent

\* `typeof value` for the kinds of the model.
TypeOf(value) ==
    CASE value.kind = "undefined" -> "undefined"
      [] value.kind = "number" -> "number"
      [] value.kind = "string" -> "string"
      [] value.kind = "boolean" -> "boolean"
      [] value.kind = "function" -> "function"
      [] value.kind = "symbol" -> "symbol"
      [] OTHER -> "object"

\* Number to decimal text, digit by digit.
DigitChar(d) ==
    CASE d = 0 -> "0" [] d = 1 -> "1" [] d = 2 -> "2" [] d = 3 -> "3"
      [] d = 4 -> "4" [] d = 5 -> "5" [] d = 6 -> "6" [] d = 7 -> "7"
      [] d = 8 -> "8" [] d = 9 -> "9"

RECURSIVE NatToString(_)
NatToString(n) ==
    IF n < 10 THEN DigitChar(n) ELSE NatToString(n \div 10) \o DigitChar(n % 10)

\* The values a template literal `${value}` cannot interpolate: the
\* conversion to a string throws a TypeError.
TemplateThrows(value) == value.kind \in {"symbol", "bare"}

\* Duration.toString, defined with Duration.
RECURSIVE DurationToString(_)

\* The text a template literal `${value}` interpolates (ToString), for the
\* values that have one: a primitive's text; Duration's own toString; and
\* Object.prototype.toString for a {} and for an Optional of either class,
\* which define none. A function's text is its source text, which its value
\* in the model does not carry, so there is no case for it.
ToString(value) ==
    CASE value.kind = "undefined" -> "undefined"
      [] value.kind = "null" -> "null"
      [] value.kind = "number" ->
            IF value = NaN THEN "NaN"
            ELSE IF value.num < 0 THEN "-" \o NatToString(-value.num)
            ELSE NatToString(value.num)
      [] value.kind = "string" -> value.str
      [] value.kind = "boolean" -> IF value.num = 1 THEN "true" ELSE "false"
      [] value.kind = "duration" -> DurationToString(value.num)
      [] value.kind \in {"object", "plain", "optional", "legacyOptional"} ->
            "[object Object]"

\* a === b: NaN is equal to nothing, itself included; objects are equal when
\* they are one object.
StrictEquals(a, b) == a # NaN /\ b # NaN /\ a = b

(***************************************************************************)
(* The exception hierarchy.                                                *)
(***************************************************************************)
\* The class each exception class extends ("" for the root).
SuperClass(cls) ==
    CASE cls = "AssertionException" -> "Exception"
      [] cls = "RuntimeException" -> "Exception"
      [] cls = "NilArgumentException" -> "Exception"
      [] cls = "NoSuchElementException" -> "RuntimeException"
      [] cls = "Exception" -> "Error"
      [] cls = "CallerError" -> "Error"
      [] cls = "TypeError" -> "Error"
      [] OTHER -> ""

\* `thrown instanceof cls`.
RECURSIVE InstanceOf(_, _)
InstanceOf(thrown, cls) ==
    IF thrown = cls THEN TRUE
    ELSE IF SuperClass(thrown) = "" THEN FALSE
    ELSE InstanceOf(SuperClass(thrown), cls)

\* Mutant of Exception: the default replaces any falsy message (message || default).
ExceptionFalsyDefault(cls, message, default) ==
    [cls |-> cls,
     msg |-> IF message = Undefined \/ message.str = "" THEN default ELSE message.str]

\* Exception's constructor: `message` is the argument or, when the argument is
\* undefined, the default of the parameter.
Exception(cls, message, default) ==
    [cls |-> cls, msg |-> IF message = Undefined THEN default ELSE message.str]

AssertionException(message) == Exception("AssertionException", message, "Assertion error")
RuntimeException(message) == Exception("RuntimeException", message, "Runtime error")
NoSuchElementException(message) ==
    Exception("NoSuchElementException", message, "Element being requested does not exist")
NilArgumentException(message) ==
    Exception("NilArgumentException", message, "Passed null or undefined")

\* What `${value}` throws for a value it cannot interpolate.
TemplateError(value) ==
    [cls |-> "TypeError",
     msg |-> IF value.kind = "symbol" THEN "Cannot convert a Symbol value to a string"
             ELSE "Cannot convert object to primitive value"]

\* What a throwing caller-supplied function throws.
CallerError == [cls |-> "CallerError", msg |-> "E"]
NoError == [cls |-> "", msg |-> ""]

(***************************************************************************)
(* Outcomes of calls: a return with a value, or a throw with an exception; *)
(* `calls` lists the caller-supplied functions invoked, with the argument. *)
(***************************************************************************)
Return(value, calls) ==
    [status |-> "return", value |-> value, error |-> NoError, calls |-> calls]
Throw(error, calls) ==
    [status |-> "throw", value |-> Undefined, error |-> error, calls |-> calls]
Invoked(fn, arg) == [fn |-> fn, arg |-> arg]

(***************************************************************************)
(* Validators: functions (value) => boolean | string.                      *)
(***************************************************************************)
NegativeError == "Value must not be negative"

\* The validators of the tests, over numbers, and validators over any value
\* that give each kind of result.
NumberValidators == {"nonNegative", "nonPositive"}
AnyValidators == {"alwaysTrue", "alwaysFalse", "emptyReason", "reasonA", "throwing"}
Validators == NumberValidators \cup AnyValidators

\* The values a validator is typed to take (TBase): numbers, or any value,
\* those with no text among them.
BaseValues(validator) ==
    IF validator \in NumberValidators THEN Numbers ELSE Values \cup {Symbol, BareObject}

\* Invoking the validator on a value.
Validate(validator, value) ==
    LET calls == <<Invoked(validator, value)>> IN
    CASE validator = "nonNegative" ->
            Return(IF value.num >= 0 THEN True ELSE Str(NegativeError), calls)
      [] validator = "nonPositive" -> Return(Bool(value.num <= 0), calls)
      [] validator = "alwaysTrue" -> Return(True, calls)
      [] validator = "alwaysFalse" -> Return(False, calls)
      [] validator = "emptyReason" -> Return(Str(""), calls)
      [] validator = "reasonA" -> Return(Str("a"), calls)
      [] validator = "throwing" -> Throw(CallerError, calls)

(***************************************************************************)
(* StrictType.                                                             *)
(***************************************************************************)
StrictIs(validator, value) ==
    LET r == Validate(validator, value) IN
    IF r.status = "throw" THEN r
    ELSE Return(Bool(r.value = True), r.calls)

\* Mutant of StrictAssert: rejects on a falsy result only (if (!result)).
StrictAssertFalsy(validator, value) ==
    LET r == Validate(validator, value) IN
    IF r.status = "throw" THEN r
    ELSE IF r.value = False \/ r.value = Str("")
    THEN IF TemplateThrows(value) THEN Throw(TemplateError(value), r.calls)
         ELSE Throw(AssertionException(Str("Invalid value " \o ToString(value))), r.calls)
    ELSE Return(Undefined, r.calls)

\* Mutant of StrictAssert: a false result raises with the default message.
StrictAssertDefaultMessage(validator, value) ==
    LET r == Validate(validator, value) IN
    IF r.status = "throw" THEN r
    ELSE IF TypeOf(r.value) = "string"
    THEN Throw(AssertionException(r.value), r.calls)
    ELSE IF r.value = False
    THEN Throw(AssertionException(Undefined), r.calls)
    ELSE Return(Undefined, r.calls)

StrictAssert(validator, value) ==
    LET r == Validate(validator, value) IN
    IF r.status = "throw" THEN r
    ELSE IF TypeOf(r.value) = "string"
    THEN Throw(AssertionException(r.value), r.calls)
    ELSE IF r.value = False
    THEN IF TemplateThrows(value) THEN Throw(TemplateError(value), r.calls)
         ELSE Throw(AssertionException(Str("Invalid value " \o ToString(value))), r.calls)
    ELSE Return(Undefined, r.calls)

\* Mutant of StrictIdentity: returns what assert returned, not the value.
StrictIdentityAssertResult(validator, value) == StrictAssert(validator, value)

StrictIdentity(validator, value) ==
    LET a == StrictAssert(validator, value) IN
    IF a.status = "throw" THEN a ELSE Return(value, a.calls)

(***************************************************************************)
(* BrandStructure.                                                         *)
(***************************************************************************)
BrandIs(validator, value) ==
    LET r == Validate(validator, value) IN
    IF r.status = "throw" THEN r
    ELSE Return(Bool(r.value = True), r.calls)

\* Mutant of BrandStructure.assert: raises RuntimeException in place of
\* AssertionException.
BrandAssertRuntime(validator, value) ==
    LET r == Validate(validator, value) IN
    IF r.status = "throw" THEN r
    ELSE IF TypeOf(r.value) = "string"
    THEN Throw(RuntimeException(r.value), r.calls)
    ELSE IF r.value = False
    THEN IF TemplateThrows(value) THEN Throw(TemplateError(value), r.calls)
         ELSE Throw(RuntimeException(Str("Invalid value " \o ToString(value))), r.calls)
    ELSE Return(Undefined, r.calls)

BrandAssert(validator, value) ==
    LET r == Validate(validator, value) IN
    IF r.status = "throw" THEN r
    ELSE IF TypeOf(r.value) = "string"
    THEN Throw(AssertionException(r.value), r.calls)
    ELSE IF r.value = False
    THEN IF TemplateThrows(value) THEN Throw(TemplateError(value), r.calls)
         ELSE Throw(AssertionException(Str("Invalid value " \o ToString(value))), r.calls)
    ELSE Return(Undefined, r.calls)

BrandIdentity(validator, value) ==
    LET a == BrandAssert(validator, value) IN
    IF a.status = "throw" THEN a ELSE Return(value, a.calls)

(***************************************************************************)
(* The guards as a state machine: two guards constructed once, then any    *)
(* sequence of is / assert / identity calls.                               *)
(***************************************************************************)
GuardCall(class, op, value, out) ==
    [class |-> class, op |-> op, arg |-> value, out |-> out]

NoGuardCall == GuardCall("", "none", Undefined, Return(Undefined, <<>>))

StrictIsCall ==
    \E value \in BaseValues(strictValidator) :
        /\ guardCall' = GuardCall("StrictType", "is", value, StrictIs(strictValidator, value))
        /\ UNCHANGED <<strictValidator, brandValidator, heap, optCall, durationVars, timerVars>>

StrictAssertCall ==
    \E value \in BaseValues(strictValidator) :
        /\ guardCall' = GuardCall("StrictType", "assert", value, StrictAssert(strictValidator, value))
        /\ UNCHANGED <<strictValidator, brandValidator, heap, optCall, durationVars, timerVars>>

StrictIdentityCall ==
    \E value \in BaseValues(strictValidator) :
        /\ guardCall' = GuardCall("StrictType", "identity", value, StrictIdentity(strictValidator, value))
        /\ UNCHANGED <<strictValidator, brandValidator, heap, optCall, durationVars, timerVars>>

BrandIsCall ==
    \E value \in BaseValues(brandValidator) :
        /\ guardCall' = GuardCall("BrandStructure", "is", value, BrandIs(brandValidator, value))
        /\ UNCHANGED <<strictValidator, brandValidator, heap, optCall, durationVars, timerVars>>

BrandAssertCall ==
    \E value \in BaseValues(brandValidator) :
        /\ guardCall' = GuardCall("BrandStructure", "assert", value, BrandAssert(brandValidator, value))
        /\ UNCHANGED <<strictValidator, brandValidator, heap, optCall, durationVars, timerVars>>

BrandIdentityCall ==
    \E value \in BaseValues(brandValidator) :
        /\ guardCall' = GuardCall("BrandStructure", "identity", value, BrandIdentity(brandValidator, value))
        /\ UNCHANGED <<strictValidator, brandValidator, heap, optCall, durationVars, timerVars>>

GuardNext ==
    \/ StrictIsCall
    \/ StrictAssertCall
    \/ StrictIdentityCall
    \/ BrandIsCall
    \/ BrandAssertCall
    \/ BrandIdentityCall

(***************************************************************************)
(* Optional.                                                               *)
(***************************************************************************)
\* Mutant of isNil: value === null.
isNilStrict(value) == value.kind = "null"

\* value == null
isNil(value) == value.kind \in {"null", "undefined"}

\* ToBoolean of a value, as `&&` and `?:` apply it.
Truthy(value) ==
    CASE value.kind \in {"null", "undefined"} -> FALSE
      [] value.kind = "number" -> value.num # 0
      [] value.kind = "string" -> value.str # ""
      [] value.kind = "boolean" -> value.num = 1
      [] OTHER -> TRUE

\* Outcomes of Optional calls carry the heap the call leaves.
OptReturn(value, calls, h) ==
    [status |-> "return", value |-> value, error |-> NoError, calls |-> calls, heap |-> h]
OptThrow(error, calls, h) ==
    [status |-> "throw", value |-> Undefined, error |-> error, calls |-> calls, heap |-> h]

\* new Optional(value): a new object whose #value is `value`.
OptionalNew(h, value) == OptReturn(Ref(Len(h) + 1), <<>>, Append(h, value))

OptionalEmpty(h) == OptionalNew(h, Null)

\* Mutant of Optional.of: no check of the argument.
OptionalOfUnchecked(h, value) == OptionalNew(h, value)

OptionalOf(h, value) ==
    IF isNil(value) THEN OptThrow(NilArgumentException(Undefined), <<>>, h)
    ELSE OptionalNew(h, value)

\* Mutant of Optional.ofNullable: empty for any falsy value (!value).
OptionalOfNullableFalsy(h, value) ==
    IF ~Truthy(value) THEN OptionalEmpty(h) ELSE OptionalNew(h, value)

OptionalOfNullable(h, value) ==
    IF isNil(value) THEN OptionalEmpty(h) ELSE OptionalNew(h, value)

(***************************************************************************)
(* The older variant of the class (optional.util.ts).  Its objects are     *)
(* instances of another class: they live in a heap of their own, a         *)
(* reference to one is no Optional for instanceof, and the only methods    *)
(* applied to them are the older class's.                                  *)
(***************************************************************************)
LegacyRef(i) == [kind |-> "legacyOptional", num |-> i, str |-> ""]

\* new Optional(value) of the older class, on a heap h of its objects.
LegacyNew(h, value) == OptReturn(LegacyRef(Len(h) + 1), <<>>, Append(h, value))
LegacyEmpty(h) == LegacyNew(h, Null)
LegacyOfNullable(h, value) == LegacyNew(h, value)
LegacyIsPresent(h, this) == ~isNil(h[this])
LegacyGet(h, this) ==
    IF isNil(h[this]) THEN OptThrow(NoSuchElementException(Undefined), <<>>, h)
    ELSE OptReturn(h[this], <<>>, h)

(***************************************************************************)
(* Caller-supplied functions, by name.  A function value is Fn(name);      *)
(* ConstRef(i) is a closure () => o over the existing Optional object i.   *)
(***************************************************************************)
ConstRef(i) == [kind |-> "function", num |-> i, str |-> "constRef"]

\* The pure functions of one argument, and x => g(f(x)) for two of them.
PureFunctions ==
    {Fn("identity"), Fn("toZero"), Fn("toNull"), Fn("toUndefined"),
     Fn("isNumber"), Fn("isTruthy"), Fn("toNaN"), Fn("toFresh")}
Compose(g, f) == Fn(g.str \o "(" \o f.str \o "(x))")

RECURSIVE Call(_, _, _)
Call(fn, arg, h) ==
    LET calls == <<Invoked(fn, arg)>> IN
    CASE fn.str = "noop" -> OptReturn(Undefined, calls, h)
      [] fn.str = "throwing" -> OptThrow(CallerError, calls, h)
      [] fn.str = "identity" -> OptReturn(arg, calls, h)
      [] fn.str = "toNull" -> OptReturn(Null, calls, h)
      [] fn.str = "toUndefined" -> OptReturn(Undefined, calls, h)
      [] fn.str = "toZero" -> OptReturn(Num(0), calls, h)
      [] fn.str = "toNaN" -> OptReturn(NaN, calls, h)
      [] fn.str = "toFresh" -> OptReturn(ObjRef(Len(h) + 1), calls, Append(h, PlainObject))
      [] fn.str = "isNumber" -> OptReturn(Bool(TypeOf(arg) = "number"), calls, h)
      [] fn.str = "isTruthy" -> OptReturn(Bool(Truthy(arg)), calls, h)
      [] fn.str = "ofValue" ->
            LET o == OptionalOf(h, arg) IN [o EXCEPT !.calls = calls]
      [] fn.str = "newEmpty" ->
            LET o == OptionalEmpty(h) IN [o EXCEPT !.calls = calls]
      [] fn.str = "constRef" -> OptReturn(Ref(fn.num), calls, h)
      [] OTHER ->
            LET gf == CHOOSE p \in PureFunctions \X PureFunctions : Compose(p[1], p[2]) = fn
                inner == Call(gf[2], arg, h)
                outer == Call(gf[1], inner.value, inner.heap)
            IN  IF inner.status = "throw" THEN [inner EXCEPT !.calls = calls]
                ELSE [outer EXCEPT !.calls = calls]

(***************************************************************************)
(* Optional's instance methods; `this` is the index of the receiver.       *)
(***************************************************************************)
\* Mutant of Optional.get: returns the slot without the check.
OptionalGetUnchecked(h, this) == OptReturn(h[this], <<>>, h)

OptionalGet(h, this) ==
    IF isNil(h[this]) THEN OptThrow(NoSuchElementException(Undefined), <<>>, h)
    ELSE OptReturn(h[this], <<>>, h)

OptionalIsPresent(h, this) == ~isNil(h[this])

\* Mutant of Optional.filter: a value the predicate rejects is cleared in the
\* receiver, which is returned.
OptionalFilterInPlace(h, this, predicate) ==
    IF isNil(predicate) THEN OptThrow(NilArgumentException(Undefined), <<>>, h)
    ELSE IF ~isNil(h[this])
    THEN LET r == Call(predicate, h[this], h) IN
         IF r.status = "throw" THEN r
         ELSE IF Truthy(r.value)
         THEN [OptionalNew(r.heap, h[this]) EXCEPT !.calls = r.calls]
         ELSE OptReturn(Ref(this), r.calls, [r.heap EXCEPT ![this] = Null])
    ELSE OptionalEmpty(h)

\* Mutant of Optional.filter: the predicate is invoked and its result ignored.
OptionalFilterIgnoresPredicate(h, this, predicate) ==
    IF isNil(predicate) THEN OptThrow(NilArgumentException(Undefined), <<>>, h)
    ELSE IF ~isNil(h[this])
    THEN LET r == Call(predicate, h[this], h) IN
         IF r.status = "throw" THEN r
         ELSE [OptionalNew(r.heap, h[this]) EXCEPT !.calls = r.calls]
    ELSE OptionalEmpty(h)

OptionalFilter(h, this, predicate) ==
    IF isNil(predicate) THEN OptThrow(NilArgumentException(Undefined), <<>>, h)
    ELSE IF ~isNil(h[this])
    THEN LET r == Call(predicate, h[this], h) IN
         IF r.status = "throw" THEN r
         ELSE IF Truthy(r.value)
         THEN [OptionalNew(r.heap, h[this]) EXCEPT !.calls = r.calls]
         ELSE [OptionalEmpty(r.heap) EXCEPT !.calls = r.calls]
    ELSE OptionalEmpty(h)

\* Mutant of Optional.map: a falsy result, not only an absent one, gives an
\* empty Optional (result ? new Optional(result) : empty()).
OptionalMapFalsy(h, this, mapper) ==
    IF isNil(mapper) THEN OptThrow(NilArgumentException(Undefined), <<>>, h)
    ELSE IF ~isNil(h[this])
    THEN LET result == Call(mapper, h[this], h) IN
         IF result.status = "throw" THEN result
         ELSE IF Truthy(result.value)
         THEN [OptionalNew(result.heap, result.value) EXCEPT !.calls = result.calls]
         ELSE [OptionalEmpty(result.heap) EXCEPT !.calls = result.calls]
    ELSE OptionalEmpty(h)

\* Mutant of Optional.map: the mapper is applied to the slot of an empty
\* receiver too.
OptionalMapAlwaysInvokes(h, this, mapper) ==
    IF isNil(mapper) THEN OptThrow(NilArgumentException(Undefined), <<>>, h)
    ELSE LET result == Call(mapper, h[this], h) IN
         IF result.status = "throw" THEN result
         ELSE [OptionalOfNullable(result.heap, result.value) EXCEPT !.calls = result.calls]

OptionalMap(h, this, mapper) ==
    IF isNil(mapper) THEN OptThrow(NilArgumentException(Undefined), <<>>, h)
    ELSE IF ~isNil(h[this])
    THEN LET result == Call(mapper, h[this], h) IN
         IF result.status = "throw" THEN result
         ELSE [OptionalOfNullable(result.heap, result.value) EXCEPT !.calls = result.calls]
    ELSE OptionalEmpty(h)

\* Mutant of Optional.flatMap: the mapper is tested only where it is needed.
OptionalFlatMapLazyCheck(h, this, mapper) ==
    IF ~isNil(h[this])
    THEN IF isNil(mapper) THEN OptThrow(NilArgumentException(Undefined), <<>>, h)
         ELSE LET result == Call(mapper, h[this], h) IN
              IF result.status = "throw" THEN result
              ELSE IF ~isNil(result.value) THEN result
              ELSE [OptionalEmpty(result.heap) EXCEPT !.calls = result.calls]
    ELSE OptionalEmpty(h)

\* Mutant of Optional.flatMap: the mapper's result is wrapped as map wraps it.
OptionalFlatMapWraps(h, this, mapper) ==
    IF isNil(mapper) THEN OptThrow(NilArgumentException(Undefined), <<>>, h)
    ELSE IF ~isNil(h[this])
    THEN LET result == Call(mapper, h[this], h) IN
         IF result.status = "throw" THEN result
         ELSE [OptionalOfNullable(result.heap, result.value) EXCEPT !.calls = result.calls]
    ELSE OptionalEmpty(h)

OptionalFlatMap(h, this, mapper) ==
    IF isNil(mapper) THEN OptThrow(NilArgumentException(Undefined), <<>>, h)
    ELSE IF ~isNil(h[this])
    THEN LET result == Call(mapper, h[this], h) IN
         IF result.status = "throw" THEN result
         ELSE IF ~isNil(result.value) THEN result
         ELSE [OptionalEmpty(result.heap) EXCEPT !.calls = result.calls]
    ELSE OptionalEmpty(h)

\* Mutant of Optional.or: the supplier is tested only where it is needed.
OptionalOrLazy(h, this, supplier) ==
    IF OptionalIsPresent(h, this) THEN OptReturn(Ref(this), <<>>, h)
    ELSE IF isNil(supplier) THEN OptThrow(NilArgumentException(Undefined), <<>>, h)
    ELSE LET result == Call(supplier, Undefined, h) IN
         IF result.status = "throw" THEN result
         ELSE IF isNil(result.value)
         THEN OptThrow(NilArgumentException(Undefined), result.calls, result.heap)
         ELSE result

OptionalOr(h, this, supplier) ==
    IF isNil(supplier) THEN OptThrow(NilArgumentException(Undefined), <<>>, h)
    ELSE LET result == IF OptionalIsPresent(h, this) THEN OptReturn(Ref(this), <<>>, h)
                       ELSE Call(supplier, Undefined, h) IN
         IF result.status = "throw" THEN result
         ELSE IF isNil(result.value)
         THEN OptThrow(NilArgumentException(Undefined), result.calls, result.heap)
         ELSE result

\* Mutant of orElseThrow's try/catch/finally: the catch block does not set
\* isSupplierThrowable, so finally always raises.
TrySupplierFlagUnset(h, exceptionSupplier) ==
    LET tried == Call(exceptionSupplier, Undefined, h) IN
    OptThrow(RuntimeException(Str("Supplier is not throwable")), tried.calls, tried.heap)

\* try { exceptionSupplier() } catch (e) { isSupplierThrowable = true; throw e }
\* finally { if (!isSupplierThrowable) throw new RuntimeException(...) }
TrySupplier(h, exceptionSupplier) ==
    LET tried == Call(exceptionSupplier, Undefined, h)
        isSupplierThrowable == tried.status = "throw"
    IN  IF ~isSupplierThrowable
        THEN OptThrow(RuntimeException(Str("Supplier is not throwable")), tried.calls, tried.heap)
        ELSE tried

OptionalOrElseThrow(h, this, exceptionSupplier) ==
    IF isNil(h[this])
    THEN IF ~isNil(exceptionSupplier)
         THEN TrySupplier(h, exceptionSupplier)
         ELSE OptThrow(NoSuchElementException(Undefined), <<>>, h)
    ELSE OptReturn(h[this], <<>>, h)

\* Mutant of Optional.ifPresent: the action is checked and invoked whether or
\* not a value is present.
OptionalIfPresentUnconditional(h, this, action) ==
    IF isNil(action) THEN OptThrow(NilArgumentException(Undefined), <<>>, h)
    ELSE LET r == Call(action, h[this], h) IN
         IF r.status = "throw" THEN r ELSE OptReturn(Undefined, r.calls, r.heap)

OptionalIfPresent(h, this, action) ==
    IF ~isNil(h[this])
    THEN IF isNil(action) THEN OptThrow(NilArgumentException(Undefined), <<>>, h)
         ELSE LET r == Call(action, h[this], h) IN
              IF r.status = "throw" THEN r ELSE OptReturn(Undefined, r.calls, r.heap)
    ELSE OptReturn(Undefined, <<>>, h)

\* Mutant of Optional.ifPresentOrElse: both callbacks are checked before the
\* branch is chosen.
OptionalIfPresentOrElseEager(h, this, action, emptyAction) ==
    IF isNil(action) \/ isNil(emptyAction)
    THEN OptThrow(NilArgumentException(Undefined), <<>>, h)
    ELSE LET r == Call(IF ~isNil(h[this]) THEN action ELSE emptyAction, h[this], h) IN
         IF r.status = "throw" THEN r ELSE OptReturn(Undefined, r.calls, r.heap)

OptionalIfPresentOrElse(h, this, action, emptyAction) ==
    IF ~isNil(h[this])
    THEN IF isNil(action) THEN OptThrow(NilArgumentException(Undefined), <<>>, h)
         ELSE LET r == Call(action, h[this], h) IN
              IF r.status = "throw" THEN r ELSE OptReturn(Undefined, r.calls, r.heap)
    ELSE IF isNil(emptyAction) THEN OptThrow(NilArgumentException(Undefined), <<>>, h)
         ELSE LET r == Call(emptyAction, h[this], h) IN
              IF r.status = "throw" THEN r ELSE OptReturn(Undefined, r.calls, r.heap)

\* map of the older variant of the class; h is a heap of its objects.
LegacyMap(h, this, mapper) ==
    IF isNil(mapper) THEN OptThrow(NilArgumentException(Undefined), <<>>, h)
    ELSE IF ~isNil(h[this])
    THEN LET result == Call(mapper, h[this], h) IN
         IF result.status = "throw" THEN result
         ELSE IF ~isNil(result.value)
         THEN [LegacyNew(result.heap, result.value) EXCEPT !.calls = result.calls]
         ELSE [LegacyEmpty(result.heap) EXCEPT !.calls = result.calls]
    ELSE LegacyEmpty(h)

\* Mutant of Optional.orElse: this.#value || other.
OptionalOrElseFalsy(h, this, other) ==
    OptReturn(IF Truthy(h[this]) THEN h[this] ELSE other, <<>>, h)

OptionalOrElse(h, this, other) ==
    OptReturn(IF OptionalIsPresent(h, this) THEN h[this] ELSE other, <<>>, h)

\* Mutant of Optional.orElseGet: an error of the supplier is caught and
\* undefined returned.
OptionalOrElseGetCatches(h, this, supplier) ==
    IF ~OptionalIsPresent(h, this) /\ isNil(supplier)
    THEN OptThrow(NilArgumentException(Undefined), <<>>, h)
    ELSE IF OptionalIsPresent(h, this) THEN OptReturn(h[this], <<>>, h)
    ELSE LET supplied == Call(supplier, Undefined, h) IN
         IF supplied.status = "throw" THEN OptReturn(Undefined, supplied.calls, supplied.heap)
         ELSE supplied

\* Mutant of Optional.orElseGet: the supplier is tested first, as in or.
OptionalOrElseGetEager(h, this, supplier) ==
    IF isNil(supplier) THEN OptThrow(NilArgumentException(Undefined), <<>>, h)
    ELSE IF OptionalIsPresent(h, this) THEN OptReturn(h[this], <<>>, h)
    ELSE Call(supplier, Undefined, h)

OptionalOrElseGet(h, this, supplier) ==
    IF ~OptionalIsPresent(h, this) /\ isNil(supplier)
    THEN OptThrow(NilArgumentException(Undefined), <<>>, h)
    ELSE IF OptionalIsPresent(h, this) THEN OptReturn(h[this], <<>>, h)
    ELSE Call(supplier, Undefined, h)

\* obj instanceof Optional
IsOptional(h, obj) == obj.kind = "optional" /\ obj.num \in 1..Len(h)

\* Mutant of Optional.equals: only this.#value === obj.#value.
OptionalEqualsSlots(h, this, obj) ==
    /\ IsOptional(h, obj)
    /\ StrictEquals(h[this], h[obj.num])

OptionalEquals(h, this, obj) ==
    /\ IsOptional(h, obj)
    /\ \/ ~OptionalIsPresent(h, this) /\ ~OptionalIsPresent(h, obj.num)
       \/ StrictEquals(h[this], h[obj.num])

(***************************************************************************)
(* Optional as a state machine: any sequence of constructions and method   *)
(* calls on the objects constructed so far.                                *)
(***************************************************************************)
\* The values callers wrap: 0, "" and NaN are falsy and not absent; NaN is not
\* === itself; an object is === itself only.
Payloads == {Num(0), Num(1), Str(""), NaN, ObjRef(0)}
OptValues == Payloads \cup Absent

\* The Optional objects of the heap.
Objects == {i \in 1..Len(heap) : heap[i] # PlainObject}
Closures == {ConstRef(i) : i \in Objects}

Predicates == {Fn("isNumber"), Fn("isTruthy"), Fn("throwing")} \cup Absent
Mappers == {Fn("identity"), Fn("toZero"), Fn("toNull"), Fn("toUndefined"), Fn("throwing")} \cup Absent
FlatMappers ==
    {Fn("ofValue"), Fn("newEmpty"), Fn("toNull"), Fn("toUndefined"), Fn("throwing")}
        \cup Closures \cup Absent
OptionalSuppliers ==
    {Fn("newEmpty"), Fn("toNull"), Fn("toUndefined"), Fn("throwing")} \cup Closures \cup Absent
ExceptionSuppliers == {Fn("throwing"), Fn("noop")} \cup Absent
Consumers == {Fn("noop"), Fn("throwing")} \cup Absent
ValueSuppliers == {Fn("toZero"), Fn("toNull"), Fn("throwing")} \cup Absent
\* What equals is given: any Optional, or something that is no Optional, an
\* object of the older class among these.
Others == {Ref(i) : i \in Objects} \cup {Null, Num(0), LegacyRef(1)}

OptCall(op, this, args, r) ==
    [op |-> op, this |-> this, args |-> args,
     out |-> [status |-> r.status, value |-> r.value, error |-> r.error, calls |-> r.calls]]

NoOptCall == OptCall("none", 0, <<>>, OptReturn(Undefined, <<>>, <<>>))

\* A call made with receiver `this` and arguments `args` that ended as `r`.
Called(op, this, args, r) ==
    /\ Len(r.heap) <= MaxHeap
    /\ heap' = r.heap
    /\ optCall' = OptCall(op, this, args, r)
    /\ UNCHANGED <<guardVars, durationVars, timerVars>>

EmptyCall == Called("empty", 0, <<>>, OptionalEmpty(heap))

OfCall == \E value \in OptValues : Called("of", 0, <<value>>, OptionalOf(heap, value))

OfNullableCall ==
    \E value \in OptValues : Called("ofNullable", 0, <<value>>, OptionalOfNullable(heap, value))

\* new Optional(value): the public constructor stores any value, undefined too.
NewCall == \E value \in OptValues : Called("new", 0, <<value>>, OptionalNew(heap, value))

GetCall == \E this \in Objects : Called("get", this, <<>>, OptionalGet(heap, this))

IsPresentCall ==
    \E this \in Objects :
        Called("isPresent", this, <<>>, OptReturn(Bool(OptionalIsPresent(heap, this)), <<>>, heap))

FilterCall ==
    \E this \in Objects, predicate \in Predicates :
        Called("filter", this, <<predicate>>, OptionalFilter(heap, this, predicate))

MapCall ==
    \E this \in Objects, mapper \in Mappers :
        Called("map", this, <<mapper>>, OptionalMap(heap, this, mapper))

FlatMapCall ==
    \E this \in Objects, mapper \in FlatMappers :
        Called("flatMap", this, <<mapper>>, OptionalFlatMap(heap, this, mapper))

OrCall ==
    \E this \in Objects, supplier \in OptionalSuppliers :
        Called("or", this, <<supplier>>, OptionalOr(heap, this, supplier))

\* orElseThrow() is orElseThrow(undefined).
OrElseThrowCall ==
    \E this \in Objects, exceptionSupplier \in ExceptionSuppliers :
        Called("orElseThrow", this, <<exceptionSupplier>>,
               OptionalOrElseThrow(heap, this, exceptionSupplier))

IfPresentCall ==
    \E this \in Objects, action \in Consumers :
        Called("ifPresent", this, <<action>>, OptionalIfPresent(heap, this, action))

IfPresentOrElseCall ==
    \E this \in Objects, action \in Consumers, emptyAction \in Consumers :
        Called("ifPresentOrElse", this, <<action, emptyAction>>,
               OptionalIfPresentOrElse(heap, this, action, emptyAction))

OrElseCall ==
    \E this \in Objects, other \in OptValues :
        Called("orElse", this, <<other>>, OptionalOrElse(heap, this, other))

OrElseGetCall ==
    \E this \in Objects, supplier \in ValueSuppliers :
        Called("orElseGet", this, <<supplier>>, OptionalOrElseGet(heap, this, supplier))

EqualsCall ==
    \E this \in Objects, obj \in Others :
        Called("equals", this, <<obj>>,
               OptReturn(Bool(OptionalEquals(heap, this, obj)), <<>>, heap))

OptNext ==
    \/ EmptyCall
    \/ OfCall
    \/ OfNullableCall
    \/ NewCall
    \/ GetCall
    \/ IsPresentCall
    \/ FilterCall
    \/ MapCall
    \/ FlatMapCall
    \/ OrCall
    \/ OrElseThrowCall
    \/ IfPresentCall
    \/ IfPresentOrElseCall
    \/ OrElseCall
    \/ OrElseGetCall
    \/ EqualsCall

(***************************************************************************)
(* Claims about the guards, checked under GuardSpec.                       *)
(***************************************************************************)
\* The validator of the guard the last call was made on, and what it gives
\* for the call's argument.
CalledValidator ==
    IF guardCall.class = "StrictType" THEN strictValidator ELSE brandValidator
Validated == Validate(CalledValidator, guardCall.arg)
ValidatorGave(result) == Validated.status = "return" /\ Validated.value = result
ValidatorGaveText == Validated.status = "return" /\ TypeOf(Validated.value) = "string"

\* is, assert and identity of the class the last call was made on.
IsOf(class, validator, value) ==
    IF class = "StrictType" THEN StrictIs(validator, value) ELSE BrandIs(validator, value)
AssertOf(class, validator, value) ==
    IF class = "StrictType" THEN StrictAssert(validator, value)
    ELSE BrandAssert(validator, value)
IdentityOf(class, validator, value) ==
    IF class = "StrictType" THEN StrictIdentity(validator, value)
    ELSE BrandIdentity(validator, value)

\* C1: whenever the validator gives true, false or a string (the empty string
\* included), is returns true if and only if assert on the same value returns
\* without raising, and if and only if identity returns.
C1_IsAgreesWithAssert ==
    (guardCall.op # "none" /\ Validated.status = "return") =>
        LET accepted == IsOf(guardCall.class, CalledValidator, guardCall.arg).value = True
            asserted == AssertOf(guardCall.class, CalledValidator, guardCall.arg).status = "return"
            returned == IdentityOf(guardCall.class, CalledValidator, guardCall.arg).status = "return"
        IN  /\ accepted <=> asserted
            /\ accepted <=> returned
            /\ guardCall.op = "is" =>
                    /\ guardCall.out.status = "return"
                    /\ (guardCall.out.value = True) <=> asserted
            /\ guardCall.op \in {"assert", "identity"} =>
                    (guardCall.out.status = "return") <=> accepted

\* C1's case: is answered false for a value whose validator gave the empty
\* string.
C1_Witness ==
    /\ guardCall.op = "is"
    /\ ValidatorGave(Str(""))
    /\ guardCall.out.value = False

\* C2: when the validator gives true, is returns true, assert returns without
\* raising, and identity returns the very value it was given.
C2_ValidAccepted ==
    (guardCall.op # "none" /\ ValidatorGave(True)) =>
        /\ guardCall.out.status = "return"
        /\ guardCall.op = "is" => guardCall.out.value = True
        /\ guardCall.op = "assert" => guardCall.out.value = Undefined
        /\ guardCall.op = "identity" => guardCall.out.value = guardCall.arg

\* C2's case: identity(0) under x => x >= 0 || error returned 0.
C2_Witness ==
    /\ guardCall.op = "identity"
    /\ CalledValidator = "nonNegative"
    /\ guardCall.arg = Num(0)
    /\ guardCall.out.status = "return"
    /\ guardCall.out.value = Num(0)

\* C3: when the validator gives a string r, assert and identity raise an
\* AssertionException whose message is exactly r, and return no value.
C3_ReasonIsMessage ==
    (guardCall.op \in {"assert", "identity"} /\ ValidatorGaveText) =>
        /\ guardCall.out.status = "throw"
        /\ guardCall.out.value = Undefined
        /\ guardCall.out.error.cls = "AssertionException"
        /\ guardCall.out.error.msg = Validated.value.str
        /\ (CalledValidator = "nonNegative" /\ guardCall.arg = Num(-1)) =>
                guardCall.out.error.msg = "Value must not be negative"

\* C3's case: identity(-1) under x => x >= 0 || error raised with the error text.
C3_Witness ==
    /\ guardCall.op = "identity"
    /\ CalledValidator = "nonNegative"
    /\ guardCall.arg = Num(-1)
    /\ guardCall.out.status = "throw"
    /\ guardCall.out.error.msg = "Value must not be negative"

C5_BrandRaisesRuntimeException ==
    (/\ guardCall.class = "BrandStructure"
     /\ guardCall.op \in {"assert", "identity"}
     /\ ValidatorGaveText) =>
        /\ guardCall.out.status = "throw"
        /\ InstanceOf(guardCall.out.error.cls, "RuntimeException")
        /\ guardCall.out.error.msg = Validated.value.str

(***************************************************************************)
(* Claims about Optional, checked under OptionalSpec.                      *)
(***************************************************************************)
\* The object a call returned.
Returned == optCall.out.value.num
ReturnedObject ==
    /\ optCall.out.status = "return"
    /\ optCall.out.value.kind = "optional"
    /\ Returned \in Objects

\* C6: for every Optional constructed by any sequence of constructions and
\* combinators, isPresent is true exactly when the slot is neither null nor
\* undefined, and when it is true get() returns a value that is not absent.
C6_PresentIffNotAbsent ==
    /\ \A this \in Objects :
          /\ OptionalIsPresent(heap, this) <=> heap[this] \notin Absent
          /\ OptionalIsPresent(heap, this) =>
                /\ OptionalGet(heap, this).status = "return"
                /\ OptionalGet(heap, this).value \notin Absent
    /\ optCall.op = "isPresent" =>
          optCall.out.value = Bool(heap[optCall.this] \notin Absent)
    /\ (optCall.op = "get" /\ heap[optCall.this] \notin Absent) =>
          /\ optCall.out.status = "return"
          /\ optCall.out.value \notin Absent

\* C6's case: a combinator returned a present Optional holding a falsy value
\* while an empty Optional exists too.
C6_Witness ==
    /\ optCall.op \in {"filter", "map", "flatMap", "or"}
    /\ ReturnedObject
    /\ OptionalIsPresent(heap, Returned)
    /\ heap[Returned] \in {Num(0), Str("")}
    /\ \E other \in Objects : ~OptionalIsPresent(heap, other)

\* C7: of(x) returns a present Optional holding x when x is neither null nor
\* undefined; otherwise it raises NilArgumentException and constructs nothing.
C7_OfOutcome ==
    optCall.op = "of" =>
        IF optCall.args[1] \in Absent
        THEN /\ optCall.out.status = "throw"
             /\ optCall.out.error.cls = "NilArgumentException"
        ELSE /\ ReturnedObject
             /\ Returned = Len(heap)
             /\ heap[Returned] = optCall.args[1]
             /\ OptionalIsPresent(heap, Returned)
             /\ OptionalGet(heap, Returned).value = optCall.args[1]

C7_OfNilConstructsNothing ==
    (optCall'.op = "of" /\ optCall'.args[1] \in Absent) => heap' = heap

C7_OfConstructsOne ==
    (optCall'.op = "of" /\ optCall'.args[1] \notin Absent) => Len(heap') = Len(heap) + 1

C7_Of ==
    /\ []C7_OfOutcome
    /\ [][C7_OfNilConstructsNothing /\ C7_OfConstructsOne]_vars

\* C7's case: of(undefined) raised NilArgumentException and left the one
\* Optional constructed before it as the only one.
C7_Witness ==
    /\ optCall.op = "of"
    /\ optCall.args[1] = Undefined
    /\ optCall.out.status = "throw"
    /\ optCall.out.error.cls = "NilArgumentException"
    /\ Len(heap) = 1

\* C8: ofNullable (of either variant of the class) never raises; for null and
\* undefined it returns an Optional whose isPresent is false, for any other x
\* a present Optional whose get() is x.
C8_OfNullable ==
    /\ optCall.op = "ofNullable" =>
           /\ ReturnedObject
           /\ IF optCall.args[1] \in Absent
              THEN ~OptionalIsPresent(heap, Returned)
              ELSE /\ OptionalIsPresent(heap, Returned)
                   /\ OptionalGet(heap, Returned).status = "return"
                   /\ OptionalGet(heap, Returned).value = optCall.args[1]
    /\ \A value \in OptValues :
           LET made == LegacyOfNullable(<<>>, value) IN
           /\ made.status = "return"
           /\ made.value = LegacyRef(1)
           /\ IF value \in Absent
              THEN ~LegacyIsPresent(made.heap, 1)
              ELSE /\ LegacyIsPresent(made.heap, 1)
                   /\ LegacyGet(made.heap, 1).status = "return"
                   /\ LegacyGet(made.heap, 1).value = value

\* C8's case: ofNullable(0) returned a present Optional.
C8_Witness ==
    /\ optCall.op = "ofNullable"
    /\ optCall.args[1] = Num(0)
    /\ ReturnedObject
    /\ OptionalIsPresent(heap, Returned)

\* C9: on an empty Optional isPresent is false and get() and orElseThrow()
\* raise NoSuchElementException; on a present one both return the held value.
C9_GetAndOrElseThrow ==
    /\ (optCall.op = "isPresent" /\ heap[optCall.this] \in Absent) =>
          optCall.out = [status |-> "return", value |-> False, error |-> NoError, calls |-> <<>>]
    /\ (\/ optCall.op = "get"
        \/ optCall.op = "orElseThrow" /\ optCall.args[1] = Undefined) =>
          IF heap[optCall.this] \in Absent
          THEN /\ optCall.out.status = "throw"
               /\ optCall.out.error.cls = "NoSuchElementException"
          ELSE /\ optCall.out.status = "return"
               /\ optCall.out.value = heap[optCall.this]

\* C9's case: orElseThrow() raised on an empty Optional.
C9_Witness ==
    /\ optCall.op = "orElseThrow"
    /\ optCall.args[1] = Undefined
    /\ heap[optCall.this] = Null
    /\ optCall.out.status = "throw"

\* C10: orElseThrow(exceptionSupplier), on an empty Optional, invokes the
\* supplier exactly once; when the supplier raises E the call raises E, when it
\* returns the call raises RuntimeException "Supplier is not throwable".  On a
\* present Optional it returns the held value and does not invoke the supplier.
C10_OrElseThrowSupplier ==
    (optCall.op = "orElseThrow" /\ optCall.args[1] \notin Absent) =>
        LET exceptionSupplier == optCall.args[1] IN
        IF heap[optCall.this] \in Absent
        THEN /\ optCall.out.status = "throw"
             /\ optCall.out.calls = <<Invoked(exceptionSupplier, Undefined)>>
             /\ IF Call(exceptionSupplier, Undefined, heap).status = "throw"
                THEN optCall.out.error = Call(exceptionSupplier, Undefined, heap).error
                ELSE /\ optCall.out.error.cls = "RuntimeException"
                     /\ optCall.out.error.msg = "Supplier is not throwable"
             /\ exceptionSupplier = Fn("throwing") => optCall.out.error = CallerError
             /\ exceptionSupplier = Fn("noop") => optCall.out.error.cls = "RuntimeException"
        ELSE /\ optCall.out.status = "return"
             /\ optCall.out.value = heap[optCall.this]
             /\ optCall.out.calls = <<>>

\* C10's case: a raising supplier's error came out of orElseThrow on an empty
\* Optional.
C10_Witness ==
    /\ optCall.op = "orElseThrow"
    /\ optCall.args[1] = Fn("throwing")
    /\ heap[optCall.this] \in Absent
    /\ optCall.out.error = CallerError

\* Shorthands for the last call.
ReceiverPresent == heap[optCall.this] \notin Absent
RaisedNil ==
    /\ optCall.out.status = "throw"
    /\ optCall.out.error.cls = "NilArgumentException"

\* C11 as claimed: ifPresent and ifPresentOrElse raise NilArgumentException,
\* before invoking anything, whenever any callback argument is null or
\* undefined, whether the receiver is present or empty.
C11_EagerCallbackCheck ==
    (/\ optCall.op \in {"ifPresent", "ifPresentOrElse"}
     /\ \E i \in DOMAIN optCall.args : optCall.args[i] \in Absent) =>
        RaisedNil /\ optCall.out.calls = <<>>

\* C11 as amended: only the callback of the branch that executes is checked.
\* ifPresent raises NilArgumentException exactly when the receiver is present
\* and action is absent; ifPresentOrElse raises it exactly when action is
\* absent on a present receiver or emptyAction is absent on an empty one; the
\* raise comes before any callback is invoked, and an absent callback of the
\* branch not taken causes no error.
C11_BranchCallbackCheck ==
    /\ optCall.op = "ifPresent" =>
          /\ RaisedNil <=> (ReceiverPresent /\ optCall.args[1] \in Absent)
          /\ RaisedNil => optCall.out.calls = <<>>
          /\ ~ReceiverPresent =>
                optCall.out = [status |-> "return", value |-> Undefined,
                               error |-> NoError, calls |-> <<>>]
    /\ optCall.op = "ifPresentOrElse" =>
          LET needed == IF ReceiverPresent THEN optCall.args[1] ELSE optCall.args[2] IN
          /\ RaisedNil <=> needed \in Absent
          /\ RaisedNil => optCall.out.calls = <<>>
          /\ needed \notin Absent => optCall.out.calls[1].fn = needed

\* C11's case: ifPresentOrElse(null, emptyAction) on an empty Optional invoked
\* emptyAction and returned.
C11_Witness ==
    /\ optCall.op = "ifPresentOrElse"
    /\ ~ReceiverPresent
    /\ optCall.args = <<Null, Fn("noop")>>
    /\ optCall.out.status = "return"
    /\ optCall.out.calls = <<Invoked(Fn("noop"), heap[optCall.this])>>

\* C12: with callbacks that are not absent, ifPresent invokes action once with
\* the held value on a present receiver and nothing on an empty one;
\* ifPresentOrElse invokes exactly one callback, once: action with the held
\* value when present, emptyAction when empty.
C12_OneCallback ==
    /\ (optCall.op = "ifPresent" /\ optCall.args[1] \notin Absent) =>
          optCall.out.calls =
              IF ReceiverPresent THEN <<Invoked(optCall.args[1], heap[optCall.this])>>
              ELSE <<>>
    /\ (/\ optCall.op = "ifPresentOrElse"
        /\ optCall.args[1] \notin Absent
        /\ optCall.args[2] \notin Absent) =>
          /\ Len(optCall.out.calls) = 1
          /\ optCall.out.calls[1] =
                Invoked(IF ReceiverPresent THEN optCall.args[1] ELSE optCall.args[2],
                        heap[optCall.this])
    /\ (optCall.op \in {"ifPresent", "ifPresentOrElse"} /\ optCall.out.status = "return") =>
          optCall.out.value = Undefined

\* C12's case: ifPresentOrElse(action, emptyAction) on a present Optional
\* invoked action alone, with the held value.
C12_Witness ==
    /\ optCall.op = "ifPresentOrElse"
    /\ ReceiverPresent
    /\ optCall.args = <<Fn("noop"), Fn("throwing")>>
    /\ optCall.out.status = "return"
    /\ optCall.out.calls = <<Invoked(Fn("noop"), heap[optCall.this])>>

\* opt.map(f).map(g) equals opt.map(x => g(f(x))), where `mapped` is the
\* object opt.map(f) returned on heap h.
MapsAgree(h, opt, mapped, f, g) ==
    LET chained == OptionalMap(h, mapped, g)
        direct == OptionalMap(chained.heap, opt, Compose(g, f))
    IN  /\ chained.status = "return"
        /\ direct.status = "return"
        /\ OptionalEquals(direct.heap, chained.value.num, direct.value)

\* The last call was opt.map(f) on a present opt with a pure f, and returned.
MappedPure ==
    /\ optCall.op = "map"
    /\ optCall.args[1] \in PureFunctions
    /\ ReceiverPresent
    /\ ReturnedObject

\* g(f(x)) evaluated for the held value and evaluated again: the law's two
\* sides each evaluate it once.
MappedTwice(h, value, f, g) ==
    LET once == Call(Compose(g, f), value, h)
        again == Call(Compose(g, f), value, once.heap)
    IN  [once |-> once.value, again |-> again.value]

\* C13 as claimed: for every present opt and all pure f and g, whatever they
\* return, opt.map(f).map(g) equals opt.map(x => g(f(x))).
C13_MapComposition ==
    MappedPure =>
        \A g \in PureFunctions : MapsAgree(heap, optCall.this, Returned, optCall.args[1], g)

\* opt.map(f).map(g) equals opt.map(x => g(f(x))) exactly when g(f(v)) is
\* null or undefined, or f(v) is neither and g(f(v)) is === from one
\* evaluation to the next; v is the value opt holds, `mapped` is opt.map(f).
MapLaw(h, opt, mapped, f, g) ==
    LET gfv == MappedTwice(h, h[opt], f, g) IN
    MapsAgree(h, opt, mapped, f, g) <=>
        \/ gfv.once \in Absent
        \/ /\ Call(f, h[opt], h).value \notin Absent
           /\ StrictEquals(gfv.once, gfv.again)

\* C13 as amended: for every present opt holding v and all pure f and g,
\* opt.map(f).map(g) equals opt.map(x => g(f(x))) exactly when g(f(v)) is null
\* or undefined, or f(v) is neither and g(f(v)) is === from one evaluation to
\* the next, that is, not NaN and not an object f or g creates. It is checked
\* for the map just called and, on its receiver, for each pure f it could be
\* mapped by next.
C13_MapCompositionExact ==
    MappedPure =>
        /\ \A g \in PureFunctions :
               MapLaw(heap, optCall.this, Returned, optCall.args[1], g)
        /\ \A f \in PureFunctions, g \in PureFunctions :
               LET mapped == OptionalMap(heap, optCall.this, f) IN
               /\ mapped.status = "return"
               /\ MapLaw(mapped.heap, optCall.this, mapped.value.num, f, g)

\* C13's case: opt.map(x => 0) returned a present Optional holding 0; mapped
\* again the two sides agree for g = x => x and for g = x => null, and differ
\* for a g that returns NaN and for one that returns a new object; they differ
\* as well when it is f that returns a new object and g returns its argument.
C13_Witness ==
    /\ MappedPure
    /\ optCall.args[1] = Fn("toZero")
    /\ heap[Returned] = Num(0)
    /\ MapsAgree(heap, optCall.this, Returned, Fn("toZero"), Fn("identity"))
    /\ MapsAgree(heap, optCall.this, Returned, Fn("toZero"), Fn("toNull"))
    /\ ~MapsAgree(heap, optCall.this, Returned, Fn("toZero"), Fn("toNaN"))
    /\ ~MapsAgree(heap, optCall.this, Returned, Fn("toZero"), Fn("toFresh"))
    /\ LET mapped == OptionalMap(heap, optCall.this, Fn("toFresh")) IN
       ~MapsAgree(mapped.heap, optCall.this, mapped.value.num, Fn("toFresh"), Fn("identity"))

\* C14: map with a mapper that is not absent, in either variant of the class:
\* on a present receiver the mapper is invoked once with the held value, and
\* the result is a present Optional holding what it returned, or an empty
\* Optional when it returned null or undefined; on an empty receiver the
\* result is empty and the mapper is not invoked.
C14_Map ==
    /\ (optCall.op = "map" /\ optCall.args[1] \notin Absent) =>
           LET mapper == optCall.args[1]
               result == Call(mapper, heap[optCall.this], heap)
           IN  IF ReceiverPresent
               THEN /\ optCall.out.calls = <<Invoked(mapper, heap[optCall.this])>>
                    /\ IF result.status = "throw"
                       THEN optCall.out.status = "throw" /\ optCall.out.error = result.error
                       ELSE /\ ReturnedObject
                            /\ IF result.value \in Absent
                               THEN ~OptionalIsPresent(heap, Returned)
                               ELSE /\ OptionalIsPresent(heap, Returned)
                                    /\ OptionalGet(heap, Returned).value = result.value
                    /\ (mapper = Fn("toZero")) => heap[Returned] = Num(0)
                    /\ (mapper = Fn("toUndefined")) => ~OptionalIsPresent(heap, Returned)
               ELSE /\ ReturnedObject
                    /\ ~OptionalIsPresent(heap, Returned)
                    /\ optCall.out.calls = <<>>
    /\ \A value \in OptValues, mapper \in Mappers \ Absent :
           LET receiver == LegacyOfNullable(<<>>, value)
               mapped == LegacyMap(receiver.heap, 1, mapper)
               result == Call(mapper, value, receiver.heap)
           IN  IF LegacyIsPresent(receiver.heap, 1)
               THEN /\ mapped.calls = <<Invoked(mapper, value)>>
                    /\ IF result.status = "throw"
                       THEN mapped.status = "throw" /\ mapped.error = result.error
                       ELSE /\ mapped.status = "return"
                            /\ mapped.value = LegacyRef(2)
                            /\ mapped.heap[1] = value
                            /\ IF result.value \in Absent
                               THEN ~LegacyIsPresent(mapped.heap, 2)
                               ELSE /\ LegacyIsPresent(mapped.heap, 2)
                                    /\ LegacyGet(mapped.heap, 2).value = result.value
               ELSE /\ mapped.status = "return"
                    /\ mapped.value = LegacyRef(2)
                    /\ ~LegacyIsPresent(mapped.heap, 2)
                    /\ mapped.calls = <<>>

\* C14's case: map(x => 0) on a present Optional holding 1 returned a present
\* Optional holding 0.
C14_Witness ==
    /\ optCall.op = "map"
    /\ optCall.args[1] = Fn("toZero")
    /\ heap[optCall.this] = Num(1)
    /\ ReturnedObject
    /\ heap[Returned] = Num(0)
    /\ optCall.out.calls = <<Invoked(Fn("toZero"), Num(1))>>

\* C15: flatMap with a mapper that is not absent. On a present receiver the
\* mapper is invoked once with the held value and what flatMap returns is the
\* very Optional the mapper returned: the existing object for a mapper that
\* returns one, the object the mapper made with Optional.of(value), whose
\* get() is the value itself; it is an empty Optional when the mapper returned
\* null or undefined. On an empty receiver the result is empty and the mapper
\* is not invoked.
C15_FlatMap ==
    (optCall.op = "flatMap" /\ optCall.args[1] \notin Absent) =>
        LET mapper == optCall.args[1] IN
        IF ReceiverPresent
        THEN /\ optCall.out.calls = <<Invoked(mapper, heap[optCall.this])>>
             /\ (mapper.str = "constRef") => optCall.out.value = Ref(mapper.num)
             /\ (mapper = Fn("ofValue")) =>
                    /\ ReturnedObject
                    /\ Returned = Len(heap)
                    /\ OptionalGet(heap, Returned) =
                           OptReturn(heap[optCall.this], <<>>, heap)
             /\ (mapper = Fn("newEmpty")) =>
                    ReturnedObject /\ Returned = Len(heap) /\ ~OptionalIsPresent(heap, Returned)
             /\ (mapper \in {Fn("toNull"), Fn("toUndefined")}) =>
                    ReturnedObject /\ ~OptionalIsPresent(heap, Returned)
             /\ (mapper = Fn("throwing")) =>
                    optCall.out.status = "throw" /\ optCall.out.error = CallerError
             /\ \A i \in Objects : heap[i].kind # "optional"
        ELSE /\ ReturnedObject
             /\ ~OptionalIsPresent(heap, Returned)
             /\ optCall.out.calls = <<>>

\* C15's case: flatMap(x => Optional.of(x)) on a present Optional holding 1
\* returned the mapper's Optional, whose get() is 1.
C15_Witness ==
    /\ optCall.op = "flatMap"
    /\ optCall.args[1] = Fn("ofValue")
    /\ heap[optCall.this] = Num(1)
    /\ ReturnedObject
    /\ OptionalGet(heap, Returned).value = Num(1)

\* opt.filter(p) is present, holding opt's value, exactly when opt is present
\* and p(value) is true, and is empty otherwise; `filtered` is the object the
\* last call, opt.filter(p), returned.
FilterKeeps(p) ==
    /\ ReturnedObject
    /\ OptionalIsPresent(heap, Returned) <=>
           (ReceiverPresent /\ Call(p, heap[optCall.this], heap).value = True)
    /\ OptionalIsPresent(heap, Returned) => heap[Returned] = heap[optCall.this]

\* opt.filter(p).filter(p) equals opt.filter(p), either way round.
FilterAgain(p) ==
    LET again == OptionalFilter(heap, Returned, p) IN
    /\ again.status = "return"
    /\ OptionalEquals(again.heap, again.value.num, optCall.out.value)
    /\ OptionalEquals(again.heap, Returned, again.value)

\* C16 as claimed: for every Optional opt and every pure predicate p,
\* opt.filter(p) is present, holding opt's value, exactly when opt is present
\* and p(value) is true, and is empty otherwise; filtering the result by p
\* again gives an Optional that equals it.
C16_Filter ==
    (optCall.op = "filter" /\ optCall.args[1] \in {Fn("isNumber"), Fn("isTruthy")}) =>
        /\ FilterKeeps(optCall.args[1])
        /\ FilterAgain(optCall.args[1])

\* C16 as amended: opt.filter(p) is present, holding opt's value, exactly
\* when opt is present and p(value) is true, and is empty otherwise; filtering
\* the result by p again gives an Optional that equals it exactly when the
\* result is empty or holds a value other than NaN.
C16_FilterUnlessNaN ==
    (optCall.op = "filter" /\ optCall.args[1] \in {Fn("isNumber"), Fn("isTruthy")}) =>
        /\ FilterKeeps(optCall.args[1])
        /\ FilterAgain(optCall.args[1]) <=> heap[Returned] # NaN

\* C16's case: a filter kept NaN (it is a number), and the result filtered
\* again does not equal it.
C16_Witness ==
    /\ optCall.op = "filter"
    /\ optCall.args[1] = Fn("isNumber")
    /\ heap[optCall.this] = NaN
    /\ ReturnedObject
    /\ heap[Returned] = NaN
    /\ ~FilterAgain(Fn("isNumber"))

\* C17: or(supplier) raises NilArgumentException, invoking nothing, when the
\* supplier is null or undefined, present receiver or not. Otherwise a present
\* receiver is returned itself and the supplier is not invoked; on an empty
\* receiver the supplier is invoked once and its Optional returned, with
\* NilArgumentException when it returned null or undefined. What or returns
\* is always an Optional.
C17_Or ==
    (optCall.op = "or") =>
        LET supplier == optCall.args[1] IN
        /\ IF supplier \in Absent
           THEN RaisedNil /\ optCall.out.calls = <<>>
           ELSE IF ReceiverPresent
           THEN /\ optCall.out.status = "return"
                /\ optCall.out.value = Ref(optCall.this)
                /\ optCall.out.calls = <<>>
           ELSE /\ optCall.out.calls = <<Invoked(supplier, Undefined)>>
                /\ (supplier.str = "constRef") =>
                       optCall.out.status = "return" /\ optCall.out.value = Ref(supplier.num)
                /\ (supplier = Fn("newEmpty")) =>
                       ReturnedObject /\ Returned = Len(heap)
                /\ (supplier \in {Fn("toNull"), Fn("toUndefined")}) => RaisedNil
                /\ (supplier = Fn("throwing")) =>
                       optCall.out.status = "throw" /\ optCall.out.error = CallerError
        /\ optCall.out.status = "return" => ReturnedObject

\* C17's case: or(null) on a present Optional raised NilArgumentException.
C17_Witness ==
    /\ optCall.op = "or"
    /\ optCall.args[1] = Null
    /\ ReceiverPresent
    /\ RaisedNil

\* C18: orElseGet(supplier) on a present receiver returns the held value and
\* invokes nothing, whatever the supplier is, null and undefined included; on
\* an empty receiver it raises NilArgumentException when the supplier is null
\* or undefined, and otherwise invokes the supplier once and ends as the
\* supplier ended, a returned null included.
C18_OrElseGet ==
    (optCall.op = "orElseGet") =>
        LET supplier == optCall.args[1]
            supplied == Call(supplier, Undefined, heap)
        IN  IF ReceiverPresent
            THEN /\ optCall.out.status = "return"
                 /\ optCall.out.value = heap[optCall.this]
                 /\ optCall.out.calls = <<>>
            ELSE IF supplier \in Absent
            THEN RaisedNil /\ optCall.out.calls = <<>>
            ELSE /\ optCall.out.calls = <<Invoked(supplier, Undefined)>>
                 /\ optCall.out.status = supplied.status
                 /\ optCall.out.value = supplied.value
                 /\ optCall.out.error = supplied.error
                 /\ (supplier = Fn("toNull")) =>
                        optCall.out.status = "return" /\ optCall.out.value = Null

\* C18's case: orElseGet(null) on a present Optional returned the held value.
C18_Witness ==
    /\ optCall.op = "orElseGet"
    /\ optCall.args[1] = Null
    /\ ReceiverPresent
    /\ optCall.out.status = "return"
    /\ optCall.out.value = heap[optCall.this]

\* C19: orElse(other) always returns: the held value on a present receiver,
\* and other itself on an empty one, null and undefined included.
C19_OrElse ==
    (optCall.op = "orElse") =>
        /\ optCall.out.status = "return"
        /\ optCall.out.calls = <<>>
        /\ optCall.out.value =
               IF ReceiverPresent THEN heap[optCall.this] ELSE optCall.args[1]

\* C19's case: empty().orElse(null) returned null.
C19_Witness ==
    /\ optCall.op = "orElse"
    /\ ~ReceiverPresent
    /\ optCall.args[1] = Null
    /\ optCall.out.value = Null

\* C20: a.equals(b) is true exactly when b is an Optional and either both
\* are empty, whichever of null and undefined their slots hold, or both are
\* present and hold identical values, identical being === (which NaN is to
\* nothing and an object to itself only); so it is false when exactly one is
\* present and when b is not an Optional.
C20_Equals ==
    (optCall.op = "equals") =>
        LET a == optCall.this
            b == optCall.args[1]
        IN  /\ optCall.out.status = "return"
            /\ optCall.out.value \in {True, False}
            /\ optCall.out.value = True <=>
                   /\ b.kind = "optional"
                   /\ IF heap[a] \in Absent \/ heap[b.num] \in Absent
                      THEN heap[a] \in Absent /\ heap[b.num] \in Absent
                      ELSE StrictEquals(heap[a], heap[b.num])

\* C20's case: an empty Optional whose slot holds undefined was compared with
\* another Optional whose slot holds null, and they are equal.
C20_Witness ==
    /\ optCall.op = "equals"
    /\ optCall.args[1].kind = "optional"
    /\ heap[optCall.this] = Undefined
    /\ heap[optCall.args[1].num] = Null
    /\ optCall.out.value = True

\* C21: an Optional is immutable. No step, whatever operation it is and
\* whether it returns or raises, changes an object constructed before it:
\* every slot stays as it was, and with it isPresent and the outcome of
\* get(), which read nothing but the slot.
C21_Immutable ==
    [][Len(heap') >= Len(heap) /\ SubSeq(heap', 1, Len(heap)) = heap]_vars

\* C21's case: filter dropped the value of a present receiver; the result is
\* another, empty object and the receiver is still present.
C21_Witness ==
    /\ optCall.op = "filter"
    /\ ReceiverPresent
    /\ ReturnedObject
    /\ Returned # optCall.this
    /\ ~OptionalIsPresent(heap, Returned)
    /\ OptionalGet(heap, optCall.this).status = "return"

\* C22: filter, map and flatMap given null or undefined as
\* their function raise NilArgumentException and invoke nothing, on a present
\* receiver and on an empty one alike.
C22_NilFunction ==
    (/\ optCall.op \in {"filter", "map", "flatMap"}
     /\ optCall.args[1] \in Absent) =>
        /\ RaisedNil
        /\ optCall.out.calls = <<>>

\* C22's case: flatMap(null) on an empty Optional raised NilArgumentException.
C22_Witness ==
    /\ optCall.op = "flatMap"
    /\ optCall.args[1] = Null
    /\ ~ReceiverPresent
    /\ RaisedNil

\* The last invocation an Optional call made was of the throwing function.
CalleeThrew ==
    /\ optCall.out.calls # <<>>
    /\ optCall.out.calls[Len(optCall.out.calls)].fn = Fn("throwing")

\* C23: when a caller-supplied function raises, the library call raises that
\* same error: is, assert and identity of either guard with a throwing
\* validator, for every value, and ifPresent, ifPresentOrElse, filter, map,
\* flatMap, or and orElseGet whenever the function they invoked threw.
C23_ErrorsPropagate ==
    /\ \A class \in {"StrictType", "BrandStructure"}, value \in BaseValues("throwing") :
           LET thrown == Throw(CallerError, <<Invoked("throwing", value)>>) IN
           /\ IsOf(class, "throwing", value) = thrown
           /\ AssertOf(class, "throwing", value) = thrown
           /\ IdentityOf(class, "throwing", value) = thrown
    /\ (/\ optCall.op \in {"ifPresent", "ifPresentOrElse", "filter", "map",
                           "flatMap", "or", "orElseGet"}
        /\ CalleeThrew) =>
           /\ optCall.out.status = "throw"
           /\ optCall.out.error = CallerError
           /\ Len(optCall.out.calls) = 1

\* C23's case: orElseGet on an empty Optional invoked a supplier that threw.
C23_Witness ==
    /\ optCall.op = "orElseGet"
    /\ ~ReceiverPresent
    /\ CalleeThrew
    /\ optCall.out.error = CallerError

\* C24: whatever call was last made on a guard, StrictType and BrandStructure
\* given that validator and that value end alike, in the outcome the call had:
\* the same boolean, the same returned value, or AssertionException with the
\* same message (or the validator's own error, or the TypeError of a rejected
\* value that has no text); the validator is invoked once, with the value.
C24_GuardsEquivalent ==
    (guardCall.op # "none") =>
        LET v == CalledValidator
            x == guardCall.arg
            strict == CASE guardCall.op = "is" -> StrictIs(v, x)
                        [] guardCall.op = "assert" -> StrictAssert(v, x)
                        [] guardCall.op = "identity" -> StrictIdentity(v, x)
            brand == CASE guardCall.op = "is" -> BrandIs(v, x)
                       [] guardCall.op = "assert" -> BrandAssert(v, x)
                       [] guardCall.op = "identity" -> BrandIdentity(v, x)
        IN  /\ strict = brand
            /\ guardCall.out = strict
            /\ guardCall.out.calls = <<Invoked(v, x)>>
            /\ (guardCall.out.status = "throw" /\ Validated.status = "return") =>
                   IF Validated.value = False /\ TemplateThrows(x)
                   THEN guardCall.out.error = TemplateError(x)
                   ELSE guardCall.out.error.cls = "AssertionException"

\* C24's case: BrandStructure.assert rejected a value with the validator's
\* reason, as StrictType.assert does.
C24_Witness ==
    /\ guardCall.class = "BrandStructure"
    /\ guardCall.op = "assert"
    /\ brandValidator = "nonNegative"
    /\ guardCall.out.status = "throw"
    /\ guardCall.out.error = AssertionException(Str(NegativeError))
    /\ StrictAssert("nonNegative", guardCall.arg) = guardCall.out

(***************************************************************************)
(* Duration.                                                               *)
(***************************************************************************)
HOURS_PER_DAY == 24
MINUTES_PER_HOUR == 60
SECONDS_PER_MINUTE == 60
MILISECONDS_PER_SECOND == 1000
MILISECONDS_PER_MINUTE == MILISECONDS_PER_SECOND * SECONDS_PER_MINUTE
MILISECONDS_PER_HOUR == MILISECONDS_PER_MINUTE * MINUTES_PER_HOUR
MILISECONDS_PER_DAY == MILISECONDS_PER_HOUR * HOURS_PER_DAY

\* A Duration object given where a value is expected.
DurationObject(c) == [kind |-> "duration", num |-> c, str |-> ""]

\* One pass of the constructor's loop: a truthy field adds its multiple.
DurationTerm(duration, unit) == IF Truthy(duration) THEN duration.num * unit ELSE 0

\* new Duration(input): a number is the count; of an object, the sum of its
\* truthy fields, each in milliseconds.
DurationNew(input) ==
    IF TypeOf(input) = "number" THEN input.num
    ELSE DurationTerm(input.days, MILISECONDS_PER_DAY)
         + DurationTerm(input.hours, MILISECONDS_PER_HOUR)
         + DurationTerm(input.minutes, MILISECONDS_PER_MINUTE)
         + DurationTerm(input.seconds, MILISECONDS_PER_SECOND)
         + DurationTerm(input.milliseconds, 1)

DurationInMiliseconds(c) == c

\* a % b of JavaScript for integers and b > 0: the sign is the dividend's.
Remainder(a, b) == IF a >= 0 THEN a % b ELSE -((-a) % b)

\* Math.floor(a / b) for integers and b > 0.
FloorDiv(a, b) == a \div b

\* The four numbers toString interpolates.
DurationParts(c) ==
    [hours |-> FloorDiv(c, MILISECONDS_PER_HOUR),
     minutes |-> FloorDiv(Remainder(c, MILISECONDS_PER_HOUR), MILISECONDS_PER_MINUTE),
     seconds |-> FloorDiv(Remainder(c, MILISECONDS_PER_MINUTE), MILISECONDS_PER_SECOND),
     milliseconds |-> Remainder(c, MILISECONDS_PER_SECOND)]

\* `${hours}:${minutes}:${seconds}.${milliseconds}`
DurationToString(c) ==
    LET parts == DurationParts(c) IN
    ToString(Num(parts.hours)) \o ":" \o ToString(Num(parts.minutes)) \o ":"
        \o ToString(Num(parts.seconds)) \o "." \o ToString(Num(parts.milliseconds))

Rendered(c) == [called |-> TRUE, parts |-> DurationParts(c), text |-> DurationToString(c)]
NotRendered ==
    [called |-> FALSE,
     parts |-> [hours |-> 0, minutes |-> 0, seconds |-> 0, milliseconds |-> 0],
     text |-> ""]

\* The inputs constructors are given: fields absent, zero, negative, positive.
FieldValues == {Null} \cup {Num(n) : n \in -MaxField..MaxField}
DayValues == {Null, Num(1)}
HourValues == {Null, Num(-1), Num(1)}
DurationInputs ==
    [kind : {"object"}, days : DayValues, hours : HourValues, minutes : FieldValues,
     seconds : FieldValues, milliseconds : FieldValues]
CountInputs ==
    {Num(n * unit) : n \in -MaxField..MaxField,
                     unit \in {1, MILISECONDS_PER_SECOND, MILISECONDS_PER_HOUR}}

DurationOfNumber ==
    \E input \in CountInputs :
        /\ count' = DurationNew(input)
        /\ rendered' = NotRendered
        /\ UNCHANGED <<guardVars, optVars, timerVars>>

DurationOfInput ==
    \E input \in DurationInputs :
        /\ count' = DurationNew(input)
        /\ rendered' = NotRendered
        /\ UNCHANGED <<guardVars, optVars, timerVars>>

DurationToStringCall ==
    /\ rendered' = Rendered(count)
    /\ UNCHANGED <<count, guardVars, optVars, timerVars>>

DurationNext ==
    \/ DurationOfNumber
    \/ DurationOfInput
    \/ DurationToStringCall

(***************************************************************************)
(* Timer, and the host's setTimeout / setInterval / clearTimeout.          *)
(***************************************************************************)
\* The host: its armed timers [id, repeat] and the id it gives next.
NoTimers == [armed |-> {}, nextId |-> 1]
SetTimeout(h) ==
    [armed |-> h.armed \cup {[id |-> h.nextId, repeat |-> FALSE]}, nextId |-> h.nextId + 1]
SetInterval(h) ==
    [armed |-> h.armed \cup {[id |-> h.nextId, repeat |-> TRUE]}, nextId |-> h.nextId + 1]
\* clearTimeout and clearInterval: the timer of that id, if armed, is disarmed.
ClearTimer(h, id) == [h EXCEPT !.armed = {e \in h.armed : e.id # id}]

\* new Timer(duration, callback)
TimerNew(duration) ==
    [isActive |-> FALSE, isInterval |-> FALSE, timerId |-> Undefined,
     duration |-> IF duration.kind = "duration" THEN DurationInMiliseconds(duration.num)
                  ELSE duration.num]
TimerRun == TimerNew(Num(0))
TimerInterval(duration) == [TimerNew(duration) EXCEPT !.isInterval = TRUE]

TimerIsActive(t) == t.isActive

\* Mutant of #startTimer: arms a repeating timer.
StartTimerRepeating(t, h) ==
    [timer |-> [t EXCEPT !.timerId = Num(h.nextId)], host |-> SetInterval(h)]

\* #startTimer and #startInterval: the host's id is kept in #timerId.
StartTimer(t, h) ==
    [timer |-> [t EXCEPT !.timerId = Num(h.nextId)], host |-> SetTimeout(h)]
StartInterval(t, h) ==
    [timer |-> [t EXCEPT !.timerId = Num(h.nextId)], host |-> SetInterval(h)]

TimerStart(t, h) == IF t.isInterval THEN StartInterval(t, h) ELSE StartTimer(t, h)

\* cancel(): #cancelTimer or #cancelInterval, then #isActive = false.
TimerCancel(t, h) ==
    [timer |-> [t EXCEPT !.isActive = FALSE],
     host |-> IF Truthy(t.timerId) THEN ClearTimer(h, t.timerId.num) ELSE h]

\* The callback the host runs: of setTimeout, the action and then
\* #isActive = false; of setInterval, the action.
TimerCallback(t, repeat) == IF repeat THEN t ELSE [t EXCEPT !.isActive = FALSE]

TimerLog(op, out, starts, invocations, cancelled) ==
    [op |-> op, out |-> out, starts |-> starts, invocations |-> invocations,
     cancelled |-> cancelled]

TimerDurations == {Num(0), Num(1), DurationObject(MILISECONDS_PER_SECOND)}
Timers ==
    {TimerRun} \cup {TimerNew(d) : d \in TimerDurations}
        \cup {TimerInterval(d) : d \in TimerDurations}

IsActiveCall ==
    /\ timerLog' = [timerLog EXCEPT !.op = "isActive", !.out = Bool(TimerIsActive(timer))]
    /\ UNCHANGED <<timer, host, guardVars, optVars, durationVars>>

StartCall ==
    /\ host.nextId <= MaxStarts
    /\ LET started == TimerStart(timer, host) IN
       /\ timer' = started.timer
       /\ host' = started.host
    /\ timerLog' = TimerLog("start", Undefined, timerLog.starts + 1,
                            timerLog.invocations, FALSE)
    /\ UNCHANGED <<guardVars, optVars, durationVars>>

CancelCall ==
    /\ LET cancelled == TimerCancel(timer, host) IN
       /\ timer' = cancelled.timer
       /\ host' = cancelled.host
    /\ timerLog' = TimerLog("cancel", Undefined, timerLog.starts,
                            timerLog.invocations, TRUE)
    /\ UNCHANGED <<guardVars, optVars, durationVars>>

\* The host runs the callback of an armed timer: timeouts of one Timer have
\* one delay and come due in the order they were armed; a timeout is disarmed
\* by running, an interval stays armed.
Fire ==
    \E e \in host.armed :
        /\ timerLog.invocations < MaxInvocations
        /\ e.repeat \/ \A o \in host.armed : o.id >= e.id
        /\ host' = IF e.repeat THEN host ELSE ClearTimer(host, e.id)
        /\ timer' = TimerCallback(timer, e.repeat)
        /\ timerLog' = TimerLog("fire", Undefined, timerLog.starts,
                                timerLog.invocations + 1, timerLog.cancelled)
        /\ UNCHANGED <<guardVars, optVars, durationVars>>

TimerNext ==
    \/ IsActiveCall
    \/ StartCall
    \/ CancelCall
    \/ Fire

(***************************************************************************)
(* Claims about Timer and Duration.                                        *)
(***************************************************************************)
\* C25: in every state of a Timer, isActive is true exactly when a callback
\* that start() scheduled is still pending with the host.
C25_ActiveIffPending ==
    (TimerIsActive(timer) = TRUE) <=> (host.armed # {})

\* C26: after cancel() has returned and before any later start(), the host
\* runs the Timer's callback no more, however start() and cancel() were
\* called before.
C26_NoInvocationAfterCancel ==
    ~(timerLog.op = "fire" /\ timerLog.cancelled)

\* C27: the callback of a one-shot Timer has been invoked at most as many
\* times as start() has been called, those still armed counted in; a Timer
\* of any kind that was never started has nothing armed and no invocation.
C27_InvocationsWithinStarts ==
    /\ ~timer.isInterval =>
           timerLog.invocations + Cardinality(host.armed) <= timerLog.starts
    /\ (timerLog.starts = 0) => (host.armed = {} /\ timerLog.invocations = 0)

\* C27's case: a one-shot Timer started twice has run its callback twice.
C27_Witness ==
    /\ ~timer.isInterval
    /\ timerLog.op = "fire"
    /\ timerLog.starts = 2
    /\ timerLog.invocations = 2

\* C28: the parts h, m, s, ms that toString renders as "h:m:s.ms" give back
\* the count, h*3600000 + m*60000 + s*1000 + ms = count, with m and s in
\* 0..59 and ms in 0..999, for every integer count, negative ones included.
C28_PartsSumToCount ==
    rendered.called =>
        LET parts == rendered.parts IN
        /\ rendered.text = DurationToString(count)
        /\ parts.hours * 3600000 + parts.minutes * 60000 + parts.seconds * 1000
               + parts.milliseconds = count
        /\ parts.minutes \in 0..59
        /\ parts.seconds \in 0..59
        /\ parts.milliseconds \in 0..999

(***************************************************************************)
(* Specifications.  The guards and Optional share nothing, so each is      *)
(* explored with the other left as constructed.                            *)
(***************************************************************************)
\* Two guards constructed, each over any validator; no Optional yet.
GuardInit ==
    /\ strictValidator \in Validators
    /\ brandValidator \in Validators
    /\ guardCall = NoGuardCall
    /\ heap = <<>>
    /\ optCall = NoOptCall
    /\ count = 0
    /\ rendered = NotRendered
    /\ timer = TimerRun
    /\ host = NoTimers
    /\ timerLog = TimerLog("new", Undefined, 0, 0, FALSE)

\* No Optional constructed yet; the guards stay as constructed.
OptInit ==
    /\ strictValidator = "alwaysTrue"
    /\ brandValidator = "alwaysTrue"
    /\ guardCall = NoGuardCall
    /\ heap = <<>>
    /\ optCall = NoOptCall
    /\ count = 0
    /\ rendered = NotRendered
    /\ timer = TimerRun
    /\ host = NoTimers
    /\ timerLog = TimerLog("new", Undefined, 0, 0, FALSE)

\* Duration.ZERO
DurationInit ==
    /\ strictValidator = "alwaysTrue"
    /\ brandValidator = "alwaysTrue"
    /\ guardCall = NoGuardCall
    /\ heap = <<>>
    /\ optCall = NoOptCall
    /\ count = DurationNew(Num(0))
    /\ rendered = NotRendered
    /\ timer = TimerRun
    /\ host = NoTimers
    /\ timerLog = TimerLog("new", Undefined, 0, 0, FALSE)

\* A Timer made by new Timer, Timer.run or Timer.interval; nothing is armed.
TimerInit ==
    /\ strictValidator = "alwaysTrue"
    /\ brandValidator = "alwaysTrue"
    /\ guardCall = NoGuardCall
    /\ heap = <<>>
    /\ optCall = NoOptCall
    /\ count = 0
    /\ rendered = NotRendered
    /\ timer \in Timers
    /\ host = NoTimers
    /\ timerLog = TimerLog("new", Undefined, 0, 0, FALSE)

GuardSpec == GuardInit /\ [][GuardNext]_vars

OptionalSpec == OptInit /\ [][OptNext]_vars

DurationSpec == DurationInit /\ [][DurationNext]_vars

TimerSpec == TimerInit /\ [][TimerNext]_vars

====
